---- MODULE Spec2Model ----
(***************************************************************************)
(* A model of libreco/algorithms/din.py (class DIN): the inference drivers *)
(* predict and recommend_user, the masked softmax of _attention_unit, the  *)
(* tensor shapes built by _build_model, and the control flow of fit.       *)
(*                                                                         *)
(* Real numbers are fixed-point integers with Scale units per 1.0.         *)
(***************************************************************************)
EXTENDS Integers, Sequences, FiniteSets

VARIABLES
    task,            \* self.task
    global_mean,     \* data_info.global_mean (fixed point)
    user_consumed,   \* self.user_consumed : user index -> set of item ids
    reco,            \* the last recommend_user call and what it returned
    pred,            \* the last predict call and what it returned
    attn,            \* the last evaluation of _attention_unit
    graph,           \* the feature layout and the tensor shapes _build_model built
    fit              \* the position of fit and the state of the cached tables

vars == <<task, global_mean, user_consumed, reco, pred, attn, graph, fit>>

----------------------------------------------------------------------------
(* Bounds of the model *)

NUsers == 2          \* data_info.n_users
NItems == 3          \* data_info.n_items

Users == 0 .. NUsers - 1
Items == 0 .. NItems - 1
Tasks == {"rating", "ranking"}

\* Values the scoring head (self.output) may produce for one example, in units of 1.0
RawScores == {-2, 0, 2}

----------------------------------------------------------------------------
(* Fixed-point arithmetic *)

Scale == 10 ^ 3

ToFixed(x) == x * Scale

\* e^x for an integer x, in fixed point (e ~ 2718 / 1000)
RECURSIVE ExpFix(_)
ExpFix(x) ==
    IF x = 0 THEN Scale
    ELSE IF x > 0 THEN (ExpFix(x - 1) * 2718) \div 1000
    ELSE (ExpFix(x + 1) * 1000) \div 2718

\* 1 / (1 + np.exp(-x))
Sigmoid(x) == (Scale * Scale) \div (Scale + ExpFix(-x))

----------------------------------------------------------------------------
(* Python values *)

PyNone == [tag |-> "None", v |-> 0]
PyInt(n) == [tag |-> "int", v |-> n]

\* Python truthiness of None or an int: `not x`
PyNot(x) == x.tag = "None" \/ x.v = 0

----------------------------------------------------------------------------
(* Helpers on sets and sequences *)

Min(a, b) == IF a <= b THEN a ELSE b

Range(s) == {s[k] : k \in 1 .. Len(s)}

\* itertools.islice(seq, n): the first n elements
Islice(s, n) == SubSeq(s, 1, Min(n, Len(s)))

----------------------------------------------------------------------------
(* Inference: the output transform (lines 395 and 420) *)

\* preds = 1 / (1 + np.exp(-preds)): applied whatever the task is
OutputTransform(t, x) == Sigmoid(x)

----------------------------------------------------------------------------
(* recommend_user *)

\* Base._check_unknown_user: the user index when it is in 0 .. n_users-1, else None
check_unknown_user(user) ==
    IF 0 <= user /\ user < NUsers THEN PyInt(user) ELSE PyNone

\* The count without the consumed items
RecoCountNoConsumed(n_rec, consumed) == n_rec

\* count = n_rec + len(consumed); user_consumed[user] is held as the set of its items
RecoCount(n_rec, consumed) == n_rec + Cardinality(consumed)

\* np.argpartition(recos, -count)[-count:] as a set of indices: some `count` indices
\* none of which scores below an index left out (which of several equal scores are
\* taken, and in which order, is up to numpy's selection).
ArgPartitionTop(recos, count) ==
    {S \in SUBSET DOMAIN recos :
        /\ Cardinality(S) = count
        /\ \A i \in S : \A j \in (DOMAIN recos) \ S : recos[j] <= recos[i]}

\* sorted(zip(ids, recos[ids]), key=lambda x: -x[1]): the orders of ids by
\* non-increasing score (the sort is stable, the order of ids it starts from is not fixed)
RECURSIVE SortedByScore(_, _)
SortedByScore(ids, recos) ==
    IF ids = {} THEN {<<>>}
    ELSE UNION {
        {<<(<<i, recos[i]>>)>> \o r : r \in SortedByScore(ids \ {i}, recos)} :
            i \in {i \in ids : \A j \in ids : recos[j] <= recos[i]}}

\* The ranking with nothing filtered out
NotConsumedKeepAll(rank, consumed) == rank

\* (rec for rec in rank if rec[0] not in consumed)
NotConsumed(rank, consumed) ==
    LET Keep(rec) == rec[1] \notin consumed IN SelectSeq(rank, Keep)

\* What recommend_user returns on scores `raw`, given the choices numpy made
RecoReturn(rank, consumed, n_rec) == Islice(NotConsumed(rank, consumed), n_rec)

NoScores == [i \in Items |-> 0]

RecoIdle == [kind |-> "idle", user |-> 0, n_rec |-> 0, scored |-> FALSE,
             raw |-> NoScores, recos |-> NoScores, items |-> <<>>]

recommend_user ==
    /\ reco.kind = "idle"
    /\ \E user \in -1 .. NUsers, n_rec \in 1 .. NItems :
        LET u == check_unknown_user(user) IN
        IF PyNot(u)
        THEN \* `if not user: return`
             reco' = [kind |-> "None", user |-> user, n_rec |-> n_rec,
                      scored |-> FALSE, raw |-> NoScores, recos |-> NoScores,
                      items |-> <<>>]
        ELSE \E raw \in [Items -> RawScores] :
             LET recos == [i \in Items |-> OutputTransform(task, raw[i])]
                 consumed == user_consumed[u.v]
                 count == RecoCount(n_rec, consumed)
             IN  IF count > NItems
                 THEN \* np.argpartition: ValueError, kth out of bounds
                      reco' = [kind |-> "ValueError", user |-> user, n_rec |-> n_rec,
                               scored |-> TRUE, raw |-> raw, recos |-> recos,
                               items |-> <<>>]
                 ELSE \E ids \in ArgPartitionTop(recos, count) :
                      \E rank \in SortedByScore(ids, recos) :
                          reco' = [kind |-> "list", user |-> user, n_rec |-> n_rec,
                                   scored |-> TRUE, raw |-> raw, recos |-> recos,
                                   items |-> RecoReturn(rank, consumed, n_rec)]

RecommendUser ==
    /\ recommend_user
    /\ UNCHANGED <<task, global_mean, user_consumed, pred, attn, graph, fit>>

\* The caller takes the result; the next call may start
RecoReturned ==
    /\ reco.kind # "idle"
    /\ reco' = RecoIdle
    /\ UNCHANGED <<task, global_mean, user_consumed, pred, attn, graph, fit>>

----------------------------------------------------------------------------
(* predict *)

MaxBatch == 2        \* the longest array passed to predict

\* Values of data_info.global_mean (fixed point): 1.0 and 3.5
GlobalMeans == {ToFixed(1), ToFixed(3) + Scale \div 2}

\* self.default_prediction (lines 76-77)
default_prediction(t, gm) == IF t = "rating" THEN gm ELSE 0

\* Base._check_unknown: the positions whose user or item id is outside the model's
\* range, their number, and the two arrays with index 0 put at those positions
check_unknown(user, item) ==
    LET unknown_index ==
            {k \in DOMAIN user :
                \/ user[k] < 0 \/ user[k] >= NUsers
                \/ item[k] < 0 \/ item[k] >= NItems}
    IN  [unknown_num |-> Cardinality(unknown_index),
         unknown_index |-> unknown_index,
         user |-> [k \in DOMAIN user |-> IF k \in unknown_index THEN 0 ELSE user[k]],
         item |-> [k \in DOMAIN item |-> IF k \in unknown_index THEN 0 ELSE item[k]]]

\* The predictions left as computed
OverwriteNothing(preds, unknown_num, unknown_index, default) == preds

\* if unknown_num > 0: preds[unknown_index] = self.default_prediction
OverwriteUnknown(preds, unknown_num, unknown_index, default) ==
    IF unknown_num > 0
    THEN [k \in DOMAIN preds |-> IF k \in unknown_index THEN default ELSE preds[k]]
    ELSE preds

\* The array returned whatever its length
PredictReturnArray(user, preds) == [shape |-> "array", values |-> preds]

\* return preds[0] if len(user) == 1 else preds
PredictReturn(user, preds) ==
    IF Len(user) = 1
    THEN [shape |-> "scalar", values |-> <<preds[1]>>]
    ELSE [shape |-> "array", values |-> preds]

PredIdle == [kind |-> "idle", user |-> <<>>, item |-> <<>>, raw |-> <<>>,
             shape |-> "none", values |-> <<>>]

\* predict(user, item) with two ints (kind "scalar", wrapped into arrays of length 1
\* by lines 375-378) or two arrays of one length (kind "array"); raw is what
\* self.sess.run(self.output) gives for the batch once the placeholders are in.
predict ==
    /\ pred.kind = "idle"
    /\ \E kind \in {"scalar", "array"} :
       \E M \in 1 .. MaxBatch :
       \E user \in [1 .. M -> -1 .. NUsers], item \in [1 .. M -> -1 .. NItems] :
       \E raw \in [1 .. M -> RawScores] :
          /\ kind = "scalar" => M = 1
          /\ LET chk == check_unknown(user, item)
                 preds == [k \in 1 .. M |-> OutputTransform(task, raw[k])]
                 final == OverwriteUnknown(preds, chk.unknown_num, chk.unknown_index,
                                           default_prediction(task, global_mean))
                 ret == PredictReturn(chk.user, final)
             IN  pred' = [kind |-> kind, user |-> user, item |-> item, raw |-> raw,
                          shape |-> ret.shape, values |-> ret.values]

Predict ==
    /\ predict
    /\ UNCHANGED <<task, global_mean, user_consumed, reco, attn, graph, fit>>

\* The caller takes the result; the next call may start
PredictReturned ==
    /\ pred.kind # "idle"
    /\ pred' = PredIdle
    /\ UNCHANGED <<task, global_mean, user_consumed, reco, attn, graph, fit>>

----------------------------------------------------------------------------
(* _attention_unit, the branch without tf.keras.layers.Attention (lines 278-305) *)
(* for one example of the batch. The numbers of this section are integers in   *)
(* units of 4.0, which lets the padding constant fit a 32-bit integer.         *)

MaxSeqLen == 3       \* self.max_seq_len

Positions == 0 .. MaxSeqLen - 1

\* Values of the raw logits of line 287 (-32.0 .. 32.0)
Logits == {-8, -4, 0, 4, 8}

\* Values of keys.get_shape().as_list()[-1], the width K_total of the keys
AttnWidths == {16, 64}

\* -2**32 + 1 as a float32 is -2^32, in units of 4.0
PadValue == -(2 ^ 30)

\* tf.sqrt on a perfect square
Sqrt(k) == CHOOSE r \in 0 .. k : r * r = k

\* A mask one position too long
sequence_mask_inclusive(keys_len) == [j \in Positions |-> j <= keys_len]

\* tf.sequence_mask(keys_len, self.max_seq_len)
sequence_mask(keys_len) == [j \in Positions |-> j < keys_len]

\* tf.where(key_masks, attention_weights, paddings)
Where(mask, x, y) == [j \in DOMAIN mask |-> IF mask[j] THEN x[j] ELSE y[j]]

\* tf.div_no_nan(x, y)
DivNoNan(x, y) == IF y = 0 THEN 0 ELSE x \div y

ExpScale == 10 ^ 4
WeightScale == 10 ^ 5

\* e^(4 d) for d <= 0 in units of 4.0, scaled by ExpScale; a float32 exp gives 0.0
\* below -104.0 (e^4 ~ 54598 / 1000)
RECURSIVE ExpNeg(_)
ExpNeg(d) ==
    IF d < -26 THEN 0
    ELSE IF d >= 0 THEN ExpScale
    ELSE (ExpNeg(d + 1) * 1000) \div 54598

RECURSIVE SumOver(_, _)
SumOver(f, S) ==
    IF S = {} THEN 0
    ELSE LET j == CHOOSE j \in S : TRUE IN f[j] + SumOver(f, S \ {j})

MaxOver(f) == CHOOSE m \in {f[j] : j \in DOMAIN f} : \A j \in DOMAIN f : f[j] <= m

\* tf.nn.softmax over the seq axis: exp(x - max(x)) / sum, scaled by WeightScale
Softmax(x) ==
    LET e == [j \in DOMAIN x |-> ExpNeg(x[j] - MaxOver(x))]
        total == SumOver(e, DOMAIN x)
    IN  [j \in DOMAIN x |-> (e[j] * WeightScale) \div total]

\* lines 291-302: the mask, the padded and scaled scores and the attention weights
AttentionWeights(attention_weights, keys_len, K_total) ==
    LET key_masks == sequence_mask(keys_len)
        paddings == [j \in Positions |-> PadValue]
        attention_scores == Where(key_masks, attention_weights, paddings)
        scaled == [j \in Positions |-> DivNoNan(attention_scores[j], Sqrt(K_total))]
    IN  [mask |-> key_masks, scores |-> scaled, weights |-> Softmax(scaled)]

AttnIdle == [kind |-> "idle", len |-> 0, K_total |-> 0,
             logits |-> [j \in Positions |-> 0],
             mask |-> [j \in Positions |-> FALSE],
             scores |-> [j \in Positions |-> 0],
             weights |-> [j \in Positions |-> 0]]

\* One evaluation of the attention unit: any true length 0 .. max_seq_len, any logits
attention_unit ==
    /\ attn.kind = "idle"
    /\ \E keys_len \in 0 .. MaxSeqLen, K_total \in AttnWidths :
       \E logits \in [Positions -> Logits] :
          LET a == AttentionWeights(logits, keys_len, K_total)
          IN  attn' = [kind |-> "done", len |-> keys_len, K_total |-> K_total,
                       logits |-> logits, mask |-> a.mask, scores |-> a.scores,
                       weights |-> a.weights]

AttentionUnit ==
    /\ attention_unit
    /\ UNCHANGED <<task, global_mean, user_consumed, reco, pred, graph, fit>>

\* The graph evaluation ends; the next batch may be fed
AttentionDone ==
    /\ attn.kind # "idle"
    /\ attn' = AttnIdle
    /\ UNCHANGED <<task, global_mean, user_consumed, reco, pred, graph, fit>>

----------------------------------------------------------------------------
(* _build_model: the shapes of the tensors, for a batch of `batch` examples.   *)
(* A shape is a tuple of dimensions; BadShape is the result of an op that      *)
(* raises. Axes are numbered from 0 as in the source.                          *)

MaxFields == 2       \* the most sparse fields, and the most dense fields

\* Values of self.embed_size
EmbedSizes == {2, 4}

BadShape == <<>>

RECURSIVE Prod(_)
Prod(shape) == IF shape = <<>> THEN 1 ELSE Head(shape) * Prod(Tail(shape))

\* tf.nn.embedding_lookup(params, ids): the shape of ids, then the embedding size
EmbeddingLookup(params, ids) == ids \o <<params[2]>>

\* tf.gather(params, indices) on axis 0: the shape of indices, then the rest of params
GatherRows(params, indices) == indices \o Tail(params)

\* tf.gather(params, indices, axis=1) with n indices
GatherCols(params, n) == [params EXCEPT ![2] = n]

\* tf.layers.flatten: the batch axis, then all the rest as one axis
Flatten(shape) == <<shape[1], Prod(Tail(shape))>>

\* tf.expand_dims(x, axis=-1)
ExpandLast(shape) == shape \o <<1>>

\* tf.tile(x, multiples)
Tile(shape, multiples) == [k \in DOMAIN shape |-> shape[k] * multiples[k]]

\* tf.multiply(a, b) on two tensors of one rank: broadcasting, or an error
Multiply(a, b) ==
    IF \A k \in DOMAIN a : a[k] = b[k] \/ a[k] = 1 \/ b[k] = 1
    THEN [k \in DOMAIN a |-> IF a[k] = 1 THEN b[k] ELSE a[k]]
    ELSE BadShape

\* tf.reshape(x, [-1] + rest): the first axis takes what is left, or an error
ReshapeRest(shape, rest) ==
    IF shape = BadShape \/ Prod(shape) % Prod(rest) # 0 THEN BadShape
    ELSE <<Prod(shape) \div Prod(rest)>> \o rest

\* tf.concat(tensors, axis): the other axes must agree
Concat(tensors, axis) ==
    IF \/ \E k \in DOMAIN tensors : tensors[k] = BadShape
       \/ \E k \in DOMAIN tensors : \E d \in DOMAIN tensors[1] :
              d # axis + 1 /\ tensors[k][d] # tensors[1][d]
    THEN BadShape
    ELSE [tensors[1] EXCEPT
            ![axis + 1] = SumOver([k \in DOMAIN tensors |-> tensors[k][axis + 1]],
                                  DOMAIN tensors)]

\* self.sparse, self.dense, self.item_sparse, self.item_dense (lines 83-93)
HasSparse(g) == g.sparse_field_size > 0
HasDense(g) == g.dense_field_size > 0
HasItemSparse(g) == g.item_sparse_col # {}
HasItemDense(g) == g.item_dense_col # {}

\* _build_user_item: item_embed = [B, K]
build_user_item(g) ==
    LET item_feat == <<NItems, g.embed_size>>
        item_indices == <<g.batch>>
        item_embed == EmbeddingLookup(item_feat, item_indices)
    IN  [g EXCEPT !.item_embed = Append(@, item_embed)]

\* _build_sparse: the item-level columns of sparse_embed [B, F_sparse, K], flattened
build_sparse(g) ==
    LET sparse_feat == <<g.sparse_field_size, g.embed_size>>
        sparse_indices == <<g.batch, g.sparse_field_size>>
        sparse_embed == EmbeddingLookup(sparse_feat, sparse_indices)
        item_sparse_embed ==
            Flatten(GatherCols(sparse_embed, Cardinality(g.item_sparse_col)))
    IN  IF HasItemSparse(g)
        THEN [g EXCEPT !.item_embed = Append(@, item_sparse_embed)]
        ELSE g

\* _build_dense: the item-level columns of dense_embed [B, F_dense, K], flattened
build_dense(g) ==
    LET dense_feat == <<g.dense_field_size, g.embed_size>>
        dense_values == <<g.batch, g.dense_field_size>>
        tiled == Tile(<<1>> \o dense_feat, <<g.batch, 1, 1>>)
        dense_values_reshape == ReshapeRest(dense_values, <<g.dense_field_size, 1>>)
        dense_embed == Multiply(tiled, dense_values_reshape)
        item_dense_embed ==
            Flatten(GatherCols(dense_embed, Cardinality(g.item_dense_col)))
    IN  IF HasItemDense(g)
        THEN [g EXCEPT !.item_embed = Append(@, item_dense_embed)]
        ELSE g

\* lines 208-225: the per-step item-level sparse embedding [B, seq, F * K]
seq_sparse_embed(g) ==
    LET sparse_feat == <<g.sparse_field_size, g.embed_size>>
        user_interacted_seq == <<g.batch, MaxSeqLen>>
        item_sparse_fields == <<NItems, Cardinality(g.item_sparse_col)>>
        item_sparse_fields_num == item_sparse_fields[2]
        seq_sparse_fields == GatherRows(item_sparse_fields, user_interacted_seq)
        embed == EmbeddingLookup(sparse_feat, seq_sparse_fields)
    IN  ReshapeRest(embed, <<MaxSeqLen, item_sparse_fields_num * g.embed_size>>)

\* lines 227-253: the per-step item-level dense embedding; self.dense_feat holds
\* all dense_field_size fields, item_dense_values only the item-level ones
seq_dense_embed(g) ==
    LET user_interacted_seq == <<g.batch, MaxSeqLen>>
        item_dense_values == <<NItems, Cardinality(g.item_dense_col)>>
        item_dense_fields_num == item_dense_values[2]
        seq_dense_values ==
            ExpandLast(GatherRows(item_dense_values, user_interacted_seq))
        batch_size == seq_dense_values[1]
        dense_embed == <<1, 1, g.dense_field_size, g.embed_size>>
        tiled == Tile(dense_embed, <<batch_size, MaxSeqLen, 1, 1>>)
        embed == Multiply(tiled, seq_dense_values)
    IN  ReshapeRest(embed, <<MaxSeqLen, item_dense_fields_num * g.embed_size>>)

\* _build_attention up to the call of _attention_unit (lines 202-258), then the
\* tiling and the concatenation of queries and keys (lines 279-283)
build_attention(g) ==
    LET user_interacted_seq == <<g.batch, MaxSeqLen>>
        seq_item_embed == EmbeddingLookup(<<NItems, g.embed_size>>, user_interacted_seq)
        seq1 == <<seq_item_embed>>
        seq2 == IF HasItemSparse(g) THEN Append(seq1, seq_sparse_embed(g)) ELSE seq1
        seq3 == IF HasItemDense(g) THEN Append(seq2, seq_dense_embed(g)) ELSE seq2
        item_total_embed == Concat(g.item_embed, 1)
        seq_total_embed == Concat(seq3, 2)
        queries ==
            IF item_total_embed = BadShape THEN BadShape
            ELSE Tile(<<item_total_embed[1], 1, item_total_embed[2]>>,
                      <<1, MaxSeqLen, 1>>)
        queries_keys_cross ==
            IF queries = BadShape \/ seq_total_embed = BadShape
                  \/ Multiply(queries, seq_total_embed) # queries
            THEN BadShape
            ELSE Concat(<<queries, seq_total_embed, queries, queries>>, 2)
    IN  [g EXCEPT !.seq_embed = seq3,
                  !.queries = item_total_embed,
                  !.keys = seq_total_embed,
                  !.pc = IF queries_keys_cross = BadShape THEN "error" ELSE "built"]

GraphIdle == [pc |-> "start", embed_size |-> 0, batch |-> 0,
              sparse_field_size |-> 0, item_sparse_col |-> {},
              dense_field_size |-> 0, item_dense_col |-> {},
              item_embed |-> <<>>, seq_embed |-> <<>>,
              queries |-> BadShape, keys |-> BadShape]

\* The feature layouts of data_info: the item-level columns are among the columns
GraphConfigs ==
    {[GraphIdle EXCEPT !.embed_size = K, !.batch = B,
                       !.sparse_field_size = fs, !.item_sparse_col = isc,
                       !.dense_field_size = fd, !.item_dense_col = idc] :
        K \in EmbedSizes, B \in 1 .. MaxBatch,
        fs \in 0 .. MaxFields, isc \in SUBSET (0 .. MaxFields - 1),
        fd \in 0 .. MaxFields, idc \in SUBSET (0 .. MaxFields - 1)}

\* lines 103-105: the empty lists, the placeholders and the variables
BuildPlaceholdersVariables ==
    /\ graph.pc = "start"
    /\ graph' = [graph EXCEPT !.pc = "user_item", !.item_embed = <<>>,
                              !.seq_embed = <<>>]
    /\ UNCHANGED <<task, global_mean, user_consumed, reco, pred, attn, fit>>

\* line 106
BuildUserItem ==
    /\ graph.pc = "user_item"
    /\ graph' = [build_user_item(graph) EXCEPT !.pc = "sparse"]
    /\ UNCHANGED <<task, global_mean, user_consumed, reco, pred, attn, fit>>

\* lines 107-108
BuildSparse ==
    /\ graph.pc = "sparse"
    /\ graph' = [(IF HasSparse(graph) THEN build_sparse(graph) ELSE graph)
                    EXCEPT !.pc = "dense"]
    /\ UNCHANGED <<task, global_mean, user_consumed, reco, pred, attn, fit>>

\* lines 109-110
BuildDense ==
    /\ graph.pc = "dense"
    /\ graph' = [(IF HasDense(graph) THEN build_dense(graph) ELSE graph)
                    EXCEPT !.pc = "attention"]
    /\ UNCHANGED <<task, global_mean, user_consumed, reco, pred, attn, fit>>

\* line 111
BuildAttention ==
    /\ graph.pc = "attention"
    /\ graph' = build_attention(graph)
    /\ UNCHANGED <<task, global_mean, user_consumed, reco, pred, attn, fit>>

----------------------------------------------------------------------------
(* fit: the epochs, the training steps and the cached tables                   *)
(* self.user_last_interacted and self.last_interacted_len                      *)

MaxEpochs == 2       \* the most epochs (self.n_epochs)
MaxBatches == 2      \* the most batches the data generator yields in an epoch

VerboseLevels == {0, 1, 2}

FitIdle == [pc |-> "start", n_epochs |-> 1, n_batches |-> 0, verbose |-> 0,
            epoch |-> 0, batch |-> 0,
            seq_built |-> FALSE, len_built |-> FALSE, dirty |-> FALSE,
            last |-> "init"]

\* _set_last_interacted (lines 431-435): both tables are assigned at once
set_last_interacted(f) ==
    [f EXCEPT !.seq_built = TRUE, !.len_built = TRUE, !.dirty = FALSE,
              !.last = "set_last_interacted"]

\* lines 331-346: the graph and the train ops are built, the first epoch starts
FitBegin ==
    /\ fit.pc = "start"
    /\ fit' = [fit EXCEPT !.pc = "train", !.epoch = 1, !.batch = 0, !.last = "begin"]
    /\ UNCHANGED <<task, global_mean, user_consumed, reco, pred, attn, graph>>

\* lines 352-359: one training step on the next batch of the epoch
TrainStep ==
    /\ fit.pc = "train"
    /\ fit.batch < fit.n_batches
    /\ fit' = [fit EXCEPT !.batch = @ + 1, !.dirty = TRUE, !.last = "train"]
    /\ UNCHANGED <<task, global_mean, user_consumed, reco, pred, attn, graph>>

\* line 361: the batches of the epoch are done
EpochTrained ==
    /\ fit.pc = "train"
    /\ fit.batch = fit.n_batches
    /\ fit' = [fit EXCEPT !.pc = IF fit.verbose > 1 THEN "set_last_eval" ELSE "next_epoch",
                          !.last = "epoch_trained"]
    /\ UNCHANGED <<task, global_mean, user_consumed, reco, pred, attn, graph>>

\* The evaluation without the rebuild of line 367
SkipSetLastInteractedEval ==
    /\ fit.pc = "set_last_eval"
    /\ fit' = [fit EXCEPT !.pc = "print_metrics", !.last = "skipped"]
    /\ UNCHANGED <<task, global_mean, user_consumed, reco, pred, attn, graph>>

\* line 367
SetLastInteractedEval ==
    /\ fit.pc = "set_last_eval"
    /\ fit' = [set_last_interacted(fit) EXCEPT !.pc = "print_metrics"]
    /\ UNCHANGED <<task, global_mean, user_consumed, reco, pred, attn, graph>>

\* line 368: the evaluation reads the cached tables
PrintMetrics ==
    /\ fit.pc = "print_metrics"
    /\ fit' = [fit EXCEPT !.pc = "next_epoch", !.last = "print_metrics"]
    /\ UNCHANGED <<task, global_mean, user_consumed, reco, pred, attn, graph>>

\* line 346: the next epoch, or the end of the loop
NextEpoch ==
    /\ fit.pc = "next_epoch"
    /\ fit' = IF fit.epoch < fit.n_epochs
              THEN [fit EXCEPT !.pc = "train", !.epoch = @ + 1, !.batch = 0,
                               !.last = "next_epoch"]
              ELSE [fit EXCEPT !.pc = "set_last_final", !.last = "next_epoch"]
    /\ UNCHANGED <<task, global_mean, user_consumed, reco, pred, attn, graph>>

\* line 372, then fit returns
SetLastInteractedFinal ==
    /\ fit.pc = "set_last_final"
    /\ fit' = [set_last_interacted(fit) EXCEPT !.pc = "fitted"]
    /\ UNCHANGED <<task, global_mean, user_consumed, reco, pred, attn, graph>>

\* lines 388-389: predict, called after fit, reads the cached tables
PredictReads ==
    /\ fit.pc = "fitted"
    /\ fit' = [fit EXCEPT !.last = "predict"]
    /\ UNCHANGED <<task, global_mean, user_consumed, reco, pred, attn, graph>>

\* lines 411-414: recommend_user, called after fit, reads the cached tables
RecommendReads ==
    /\ fit.pc = "fitted"
    /\ fit' = [fit EXCEPT !.last = "recommend"]
    /\ UNCHANGED <<task, global_mean, user_consumed, reco, pred, attn, graph>>

----------------------------------------------------------------------------
(* Specifications: each starts from a constructed model and has its own steps *)

\* The consumed sets of the training data. Every user index gets every set of items;
\* recommend_user reads user_consumed[user] alone (line 421), so the users of even
\* index share one set and the users of odd index another.
ConsumedTables ==
    {[u \in Users |-> IF u % 2 = 0 THEN c[0] ELSE c[1]] : c \in [{0, 1} -> SUBSET Items]}

\* A fitted model: the task, the consumed sets of the training data, no call made yet
InitReco ==
    /\ task \in Tasks
    /\ global_mean = 0
    /\ user_consumed \in ConsumedTables
    /\ reco = RecoIdle
    /\ pred = PredIdle
    /\ attn = AttnIdle
    /\ graph = GraphIdle
    /\ fit = FitIdle

NextReco == RecommendUser \/ RecoReturned

SpecReco == InitReco /\ [][NextReco]_vars

InitPredict ==
    /\ task \in Tasks
    /\ global_mean \in GlobalMeans
    /\ user_consumed = [u \in Users |-> {u % NItems}]
    /\ reco = RecoIdle
    /\ pred = PredIdle
    /\ attn = AttnIdle
    /\ graph = GraphIdle
    /\ fit = FitIdle

NextPredict == Predict \/ PredictReturned

SpecPredict == InitPredict /\ [][NextPredict]_vars

InitAttn ==
    /\ task \in Tasks
    /\ global_mean = 0
    /\ user_consumed = [u \in Users |-> {u % NItems}]
    /\ reco = RecoIdle
    /\ pred = PredIdle
    /\ attn = AttnIdle
    /\ graph = GraphIdle
    /\ fit = FitIdle

NextAttn == AttentionUnit \/ AttentionDone

SpecAttn == InitAttn /\ [][NextAttn]_vars

InitBuild ==
    /\ task \in Tasks
    /\ global_mean = 0
    /\ user_consumed = [u \in Users |-> {u % NItems}]
    /\ reco = RecoIdle
    /\ pred = PredIdle
    /\ attn = AttnIdle
    /\ graph \in {g \in GraphConfigs :
                    /\ g.item_sparse_col \subseteq 0 .. g.sparse_field_size - 1
                    /\ g.item_dense_col \subseteq 0 .. g.dense_field_size - 1}
    /\ fit = FitIdle

NextBuild ==
    \/ BuildPlaceholdersVariables
    \/ BuildUserItem
    \/ BuildSparse
    \/ BuildDense
    \/ BuildAttention

SpecBuild == InitBuild /\ [][NextBuild]_vars

InitFit ==
    /\ task \in Tasks
    /\ global_mean = 0
    /\ user_consumed = [u \in Users |-> {u % NItems}]
    /\ reco = RecoIdle
    /\ pred = PredIdle
    /\ attn = AttnIdle
    /\ graph = GraphIdle
    /\ \E n_epochs \in 1 .. MaxEpochs, n_batches \in 0 .. MaxBatches,
          verbose \in VerboseLevels :
          fit = [FitIdle EXCEPT !.n_epochs = n_epochs, !.n_batches = n_batches,
                                !.verbose = verbose]

NextFit ==
    \/ FitBegin
    \/ TrainStep
    \/ EpochTrained
    \/ SetLastInteractedEval
    \/ PrintMetrics
    \/ NextEpoch
    \/ SetLastInteractedFinal
    \/ PredictReads
    \/ RecommendReads

SpecFit == InitFit /\ [][NextFit]_vars

----------------------------------------------------------------------------
(* Claims about recommend_user *)

RecoIds == [k \in 1 .. Len(reco.items) |-> reco.items[k][1]]
RecoConsumed == user_consumed[reco.user]
RecoUnconsumed == Items \ RecoConsumed
RecoKnownUser == 0 <= reco.user /\ reco.user < NUsers

\* C1: whenever recommend_user returns a list, no returned item id is in
\* user_consumed[user], no item id is returned twice, the list has at most n_rec
\* entries, and the scores of consecutive entries are non-increasing.
C1_RecoListSound ==
    reco.kind = "list" =>
        /\ \A k \in 1 .. Len(reco.items) : RecoIds[k] \notin RecoConsumed
        /\ \A k, l \in 1 .. Len(reco.items) : RecoIds[k] = RecoIds[l] => k = l
        /\ Len(reco.items) <= reco.n_rec
        /\ \A k \in 1 .. Len(reco.items) - 1 : reco.items[k][2] >= reco.items[k + 1][2]
        /\ \A k \in 1 .. Len(reco.items) : reco.items[k][2] = reco.recos[RecoIds[k]]

\* A list of two entries or more, with equal scores in the catalog, for a user who
\* consumed an item that scores at least as high as a returned one
C1_Witness ==
    /\ reco.kind = "list"
    /\ Len(reco.items) >= 2
    /\ \E i \in RecoConsumed : reco.recos[i] >= reco.items[1][2]
    /\ \E i, j \in Items : i # j /\ reco.recos[i] = reco.recos[j]

\* C2: the items recommend_user returns are the top n_rec of the un-consumed items:
\* as many as min(n_rec, number of un-consumed items), all un-consumed, and every
\* un-consumed item that is not returned scores at most as high as every returned one.
C2_RecoTopOfUnconsumed ==
    reco.kind = "list" =>
        /\ Range(RecoIds) \subseteq RecoUnconsumed
        /\ Cardinality(Range(RecoIds)) = Min(reco.n_rec, Cardinality(RecoUnconsumed))
        /\ \A i \in RecoUnconsumed \ Range(RecoIds) :
               \A k \in 1 .. Len(reco.items) : reco.recos[i] <= reco.items[k][2]

\* A consumed item outscores every returned item and an un-consumed item is left out
C2_Witness ==
    /\ reco.kind = "list"
    /\ Len(reco.items) >= 1
    /\ \E i \in RecoConsumed : reco.recos[i] > reco.items[1][2]
    /\ RecoUnconsumed \ Range(RecoIds) # {}

\* C3: for every known user and every n_rec >= 1, fewer than n_rec un-consumed
\* items included, recommend_user does not fail and returns exactly
\* min(n_rec, number of un-consumed items) pairs. (Stated for the user indices
\* other than 0, which C10 is about.)
C3_RecoNeverFails ==
    (reco.kind # "idle" /\ RecoKnownUser /\ reco.user # 0) =>
        /\ reco.kind = "list"
        /\ Len(reco.items) = Min(reco.n_rec, Cardinality(RecoUnconsumed))

\* C10: recommend_user returns None, without scoring, exactly when the user id is
\* unknown; for every known user index, 0 included, it scores the catalog.
C10_NoneIffUnknown ==
    reco.kind # "idle" =>
        /\ (reco.kind = "None") <=> ~RecoKnownUser
        /\ RecoKnownUser => reco.scored

----------------------------------------------------------------------------
(* Claims about predict *)

PredUnknownAt(k) ==
    \/ pred.user[k] < 0 \/ pred.user[k] >= NUsers
    \/ pred.item[k] < 0 \/ pred.item[k] >= NItems

\* C4 as stated: predict returns a result of the shape of its input: two arrays of
\* length M >= 1, M = 1 included, give an array of length M, and only scalar inputs
\* give a scalar.
C4_SameShapeAsInput ==
    /\ pred.kind = "array" =>
           pred.shape = "array" /\ Len(pred.values) = Len(pred.user)
    /\ pred.kind = "scalar" => pred.shape = "scalar"

\* C4 as amended: two arrays of length M >= 2 give an array of length M; a single
\* pair, passed as two ints or as two arrays of length 1, gives a scalar.
C4_ShapeBySize ==
    pred.kind # "idle" =>
        /\ Len(pred.user) >= 2 =>
               pred.shape = "array" /\ Len(pred.values) = Len(pred.user)
        /\ Len(pred.user) = 1 =>
               pred.shape = "scalar" /\ Len(pred.values) = 1

C4_Witness ==
    /\ pred.kind = "array" /\ Len(pred.user) = MaxBatch /\ pred.shape = "array"
    /\ \E k \in 1 .. MaxBatch : PredUnknownAt(k)

\* C5: the output at each position whose user id or item id is unknown equals
\* default_prediction (global_mean for "rating", 0.0 for "ranking") whatever the
\* paired id and the score computed for the placeholder index; the output at every
\* other position is the transformed score of that position.
C5_DefaultAtUnknown ==
    pred.kind # "idle" =>
        \A k \in 1 .. Len(pred.values) :
            pred.values[k] =
                IF PredUnknownAt(k)
                THEN (IF task = "rating" THEN global_mean ELSE 0)
                ELSE OutputTransform(task, pred.raw[k])

\* A batch with an unknown user paired with a known item, and a known pair
C5_Witness ==
    /\ pred.kind = "array"
    /\ \E k, l \in 1 .. Len(pred.values) :
           /\ pred.user[k] >= NUsers /\ pred.item[k] \in Items
           /\ ~PredUnknownAt(l)
           /\ pred.values[k] # pred.values[l]

\* C6: for task "rating" the inference output is the raw score of the scoring head
\* unchanged, and for task "ranking" it is sigmoid(raw score), a value in [0, 1].
C6_TransformByTask ==
    pred.kind # "idle" =>
        \A k \in 1 .. Len(pred.values) :
            ~PredUnknownAt(k) =>
                /\ task = "rating" => pred.values[k] = ToFixed(pred.raw[k])
                /\ task = "ranking" =>
                       /\ pred.values[k] = Sigmoid(pred.raw[k])
                       /\ 0 <= pred.values[k] /\ pred.values[k] <= Scale

----------------------------------------------------------------------------
(* Claims about the attention unit *)

AttnValid == {j \in Positions : j < attn.len}
AttnPadding == Positions \ AttnValid

\* The weights of the padding positions are 0 (below 1e-5) and the weights of the
\* valid positions sum to 1, up to the rounding of one unit per position
AttnMasked ==
    /\ \A j \in Positions : attn.mask[j] <=> j < attn.len
    /\ \A j \in AttnPadding : attn.weights[j] = 0
    /\ SumOver(attn.weights, AttnValid) >= WeightScale - MaxSeqLen
    /\ SumOver(attn.weights, AttnValid) <= WeightScale

----------------------------------------------------------------------------
(* Claims about the shapes _build_model builds *)

GraphKTotal ==
    graph.embed_size
        + Cardinality(graph.item_sparse_col) * graph.embed_size
        + Cardinality(graph.item_dense_col) * graph.embed_size

\* C8: for every feature configuration, a dense layout in which only some dense
\* fields are item-level included, the query composite embedding [batch, K_total] and
\* the per-step key composite embedding [batch, max_seq_len, K_total] have the same
\* batch size and the same width K_total = K + (item-level sparse fields) * K +
\* (item-level dense fields) * K.
C8_QueryKeyShapes ==
    graph.pc \in {"built", "error"} =>
        /\ graph.pc = "built"
        /\ graph.queries = <<graph.batch, GraphKTotal>>
        /\ graph.keys = <<graph.batch, MaxSeqLen, GraphKTotal>>

----------------------------------------------------------------------------
(* Claims about fit *)

FitReadSteps == {"print_metrics", "predict", "recommend"}

\* C9: every read of the cached tables (the evaluation inside fit, predict and
\* recommend_user after fit) comes after a completed rebuild of both tables with no
\* training step in between, and every rebuild comes at an epoch boundary, when all
\* the batches of the epoch are trained, and rebuilds both tables.
C9_ReadsFollowRebuild ==
    [][/\ fit'.last \in FitReadSteps =>
              fit.seq_built /\ fit.len_built /\ ~fit.dirty
       /\ fit'.last = "set_last_interacted" =>
              /\ fit.batch = fit.n_batches
              /\ fit.last \in {"epoch_trained", "next_epoch"}
              /\ fit'.seq_built /\ fit'.len_built]_vars

\* The evaluation of the second epoch has read the tables, after training steps
C9_Witness ==
    /\ fit.last = "print_metrics"
    /\ fit.epoch >= 2
    /\ fit.batch >= 1
    /\ fit.seq_built /\ fit.len_built /\ ~fit.dirty

====
